---- MODULE Spec2Model ----
(***************************************************************************)
(* Model of panda_gym.grasp_env.GraspEnv: the episode controller           *)
(* (reset / reset_task / step / clear_obj), the motion executor (move) and *)
(* the tracking controller (traj_tracking_vel).                            *)
(*                                                                         *)
(* Units: lengths are integers in centimetres (0.03 m = 3), angles are     *)
(* integers in half turns (pi rad = 1), gripper velocities in cm/s.        *)
(* Quaternions are 4-tuples <<x, y, z, w>> (the simulator's order); with   *)
(* angles that are multiples of pi they stay in the quaternion group       *)
(* {+-1, +-i, +-j, +-k}, on which the Hamilton product is exact.           *)
(***************************************************************************)
EXTENDS Integers, Sequences, FiniteSets, TLC

(***************************************************************************)
(* Bounds of the model                                                     *)
(***************************************************************************)
\* most objects a task descriptor lists
MaxObjs == 1
\* largest num_steps a caller passes to move directly
MaxNumSteps == 2
\* step calls counted since the last reset
MaxStepCalls == 1
\* direct move calls a caller makes between two resets
MaxMoveCalls == 1
\* the same, where every form of move call is tried
MaxFormCalls == 2
\* highest point the end-effector and what it holds can reach
ZReach == 40
\* caller stops reusing a descriptor whose z has grown past this
MaxTaskZ == 15

(***************************************************************************)
(* Program constants                                                       *)
(***************************************************************************)
\* grasp_env.py:235  lifted when risen more than 0.03
LiftThreshold == 3
\* grasp_env.py:123  obj_init_state[-2] += 0.1
SpawnOffset == 10
\* grasp_env.py:144  for _ in range(10): stepSimulation()
SettleSteps == 10
\* grasp_env.py:208  ee_pos_before = action + [0, 0, 0.10]
BeforeOffset == 10
\* grasp_env.py:209  ee_pos_after = action + [0, 0, 0.05]
AfterOffset == 5
\* grasp_env.py:204  grasp(targetVel=0.10)
OpenVel == 10
\* grasp_env.py:211  for _ in range(3)
PlaceRepeats == 3
\* grasp_env.py:214, 216, 218  the step counts step passes to move
DescendSteps == 300
DwellSteps == 100
LiftSteps == 150
\* grasp_env.py:251, 256, 257  defaults of move
DefaultNumSteps == 50
DefaultPosGain == 20
DefaultVelGain == 5
\* grasp_env.py:308  self._num_joint_arm, the 7 arm joints (373: zeros((7, 1)))
NumJointArm == 7

MaxId == MaxObjs + 1
Ids == 1..MaxId
None == <<>>   \* an argument that is not given

(***************************************************************************)
(* Small vector and sequence helpers                                       *)
(***************************************************************************)
Range(s) == {s[i] : i \in 1..Len(s)}

Vec3Add(a, b) == <<a[1] + b[1], a[2] + b[2], a[3] + b[3]>>
Vec3Sub(a, b) == <<a[1] - b[1], a[2] - b[2], a[3] - b[3]>>
Vec3Scale(k, a) == <<k * a[1], k * a[2], k * a[3]>>

\* F applied to the value of x, x evaluated once
Let(x, F(_)) == CHOOSE r \in {F(v) : v \in {x}} : TRUE

Max(a, b) == IF a >= b THEN a ELSE b
Min(a, b) == IF a <= b THEN a ELSE b

(***************************************************************************)
(* alano.geometry.transform, as grasp_env.py uses it                       *)
(***************************************************************************)
\* Hamilton product q1 * q2 of <<x, y, z, w>> quaternions
quatMult(q1, q2) ==
    LET x1 == q1[1] y1 == q1[2] z1 == q1[3] w1 == q1[4]
        x2 == q2[1] y2 == q2[2] z2 == q2[3] w2 == q2[4]
    IN  << w1 * x2 + x1 * w2 + y1 * z2 - z1 * y2,
           w1 * y2 - x1 * z2 + y1 * w2 + z1 * x2,
           w1 * z2 + x1 * y2 - y1 * x2 + z1 * w2,
           w1 * w2 - x1 * x2 - y1 * y2 - z1 * z2 >>

quatConj(q) == << -q[1], -q[2], -q[3], q[4] >>

\* rotation by n half turns about the axis with index ax (1 = x, 2 = y, 3 = z)
AxisQuat(ax, n) ==
    LET m == n % 4
        u == [i \in 1..4 |-> IF i = ax THEN 1 ELSE 0]
    IN  CASE m = 0 -> <<0, 0, 0, 1>>
          [] m = 1 -> u
          [] m = 2 -> <<0, 0, 0, -1>>
          [] m = 3 -> [i \in 1..4 |-> -u[i]]

\* euler2quat([yaw, pitch, roll]): first angle about z, then y, then x
euler2quat(e) ==
    quatMult(AxisQuat(3, e[1]), quatMult(AxisQuat(2, e[2]), AxisQuat(1, e[3])))

\* log_rot(quat2rot(qt) . quat2rot(qc).T): the rotation from qc to qt as an
\* axis-angle 3-vector (half turns); zero when the two orientations agree
OrnError(qt, qc) ==
    LET d == quatMult(qt, quatConj(qc))
    IN  IF d[4] # 0 THEN <<0, 0, 0>> ELSE <<d[1], d[2], d[3]>>

\* traj_time_scaling(start_pos, end_pos, num_steps): num_steps waypoints on a
\* cubic profile s(t) = 3t^2 - 2t^3, the last one the end position
TimeScale(d, k, n) == (d * (3 * k * k * n - 2 * k * k * k)) \div (n * n * n)

traj_time_scaling(start_pos, end_pos, num_steps) ==
    [k \in 1..num_steps |->
        <<start_pos[1] + TimeScale(end_pos[1] - start_pos[1], k, num_steps),
          start_pos[2] + TimeScale(end_pos[2] - start_pos[2], k, num_steps),
          start_pos[3] + TimeScale(end_pos[3] - start_pos[3], k, num_steps)>>]


(***************************************************************************)
(* State                                                                   *)
(***************************************************************************)
VARIABLES
    initialized,              \* self._physics_client_id >= 0
    obj_id_list,              \* self._obj_id_list
    obj_initial_height_list,  \* self._obj_initial_height_list (a dict)
    finger_cur_vel,           \* self._finger_cur_vel
    step_elapsed,             \* self.step_elapsed
    ee_pos, ee_quat,          \* end-effector pose held by the simulator
    bodies,                   \* simulator: live object body -> [z, mass]
    task,                     \* the caller's task descriptor object
    lastCall,                 \* the public method called last
    raised,                   \* the exception that call ended with, or "none"
    ret,                      \* what that call returned
    trace,                    \* the calls that call made, in order
    log,                      \* what the last move did
    sameTask,                 \* the last two calls were reset on one descriptor
    prevHeights,              \* heights recorded by the reset before the last
    stepCalls,                \* step calls made since the last completed reset
    moveCalls,                \* direct move calls made since the last reset
    resetOk                   \* the last reset call ran to its end

vars == <<initialized, obj_id_list, obj_initial_height_list, finger_cur_vel,
          step_elapsed, ee_pos, ee_quat, bodies, task, lastCall, raised, ret,
          trace, log, sameTask, prevHeights, stepCalls, moveCalls, resetOk>>

Zero3 == <<0, 0, 0>>
Zero7 == [i \in 1..NumJointArm |-> 0]
DownQuat == <<1, 0, 0, 0>>   \* np.array([1.0, 0., 0., 0.]), straight down
NoQuat == <<0, 0, 0, 0>>

Call(op, pos, orn, n) == [op |-> op, pos |-> pos, orn |-> orn, n |-> n]

EmptyLog ==
    [target_pos |-> Zero3, target_orn |-> NoQuat, waypoints |-> 0,
     sim_steps |-> 0, arm_cmds |-> <<>>, finger_cmds |-> <<>>,
     failed |-> <<>>, args |-> <<>>, start_pos |-> Zero3, start_quat |-> NoQuat,
     finger_before |-> 0]

(***************************************************************************)
(* The mutable world an operation works on, as one record                  *)
(***************************************************************************)
World ==
    [list |-> obj_id_list, heights |-> obj_initial_height_list,
     finger |-> finger_cur_vel, ee_pos |-> ee_pos, ee_quat |-> ee_quat,
     bodies |-> bodies, raised |-> "none", trace |-> <<>>, log |-> EmptyLog]

\* the first body id the simulator has free
NewId(live) == CHOOSE i \in Ids \ live : \A j \in Ids \ live : i <= j

DictSet(d, k, v) == [x \in (DOMAIN d) \cup {k} |-> IF x = k THEN v ELSE d[x]]
EmptyDict == [x \in {} |-> 0]

(***************************************************************************)
(* The simulator                                                           *)
(***************************************************************************)
\* the bin: createMultiBody(baseMass=0, basePosition=[0.5, 0, 0]) is static
BinZ == 0
\* the simulator integrates a tracked velocity over pos_gain * dt = 1
Integrate(v, gain) == v \div gain

\* one stepSimulation() with the arm joints under velocity command arm_cmd:
\* the end-effector moves by the commanded twist; the body the closing gripper
\* holds moves with it in height; the other bodies stay where they are
SimTick(w, arm_cmd, pos_gain, vel_gain, grip) ==
    LET dp == <<Integrate(arm_cmd[1], pos_gain), Integrate(arm_cmd[2], pos_gain),
                Integrate(arm_cmd[3], pos_gain)>>
        e  == <<Integrate(arm_cmd[4], vel_gain), Integrate(arm_cmd[5], vel_gain),
                Integrate(arm_cmd[6], vel_gain)>>
        p1 == Vec3Add(w.ee_pos, dp)
        p2 == <<p1[1], p1[2], Max(0, Min(ZReach, p1[3]))>>
        q2 == IF e = Zero3 THEN w.ee_quat
              ELSE quatMult(<<e[1], e[2], e[3], 0>>, w.ee_quat)
        dz == p2[3] - w.ee_pos[3]
        held(b) == b = grip /\ w.finger < 0 /\ w.bodies[b].mass > 0
    IN  [w EXCEPT !.ee_pos = p2, !.ee_quat = q2,
                  !.bodies = [b \in DOMAIN w.bodies |->
                      IF held(b)
                      THEN [w.bodies[b] EXCEPT
                               !.z = Max(0, Min(ZReach, w.bodies[b].z + dz))]
                      ELSE w.bodies[b]]]

stepSimulation(w0, arm_cmd, pos_gain, vel_gain, grip) ==
    Let(w0, LAMBDA w : SimTick(w, arm_cmd, pos_gain, vel_gain, grip))

\* height at which a body spawned at z is found SettleSteps ticks later: it
\* has fallen SettleDrop at most, and not through the floor
\* free fall over n ticks of 1/240 s under 981 cm/s^2, to the nearest cm
FallIn(n) == (981 * n * n + 57600) \div 115200
Settle(b) ==
    IF b.mass > 0 THEN [b EXCEPT !.z = Max(BinZ, b.z - FallIn(SettleSteps))] ELSE b

(***************************************************************************)
(* BaseEnv helpers GraspEnv calls                                          *)
(***************************************************************************)
grasp(w, targetVel) ==
    [w EXCEPT !.finger = targetVel,
              !.trace = Append(@, Call("grasp", Zero3, NoQuat, targetVel))]

reset_arm_joints_ik(w, pos, orn) ==
    [w EXCEPT !.ee_pos = pos, !.ee_quat = orn,
              !.trace = Append(@, Call("reset_arm_joints_ik", pos, orn, 0))]

\* reset_robot: the arm back at init_joint_angles, end-effector at
\* [0.5, 0, 0.3] pointing straight down
InitEePos == <<50, 0, 30>>
reset_robot(w) == [w EXCEPT !.ee_pos = InitEePos, !.ee_quat = DownQuat]


(***************************************************************************)
(* traj_tracking_vel                                                       *)
(***************************************************************************)
\* np.linalg.pinv(jac_sp).dot(err) for the Jacobian the simulator reports,
\* here jac_sp = [I6 | 0] (6 x 7), whose pseudo-inverse is [I6 ; 0] (7 x 6)
PinvDot(err) == [i \in 1..NumJointArm |-> IF i <= 6 THEN err[i] ELSE 0]

\* the same body with the except clause of lines 372-373 left out
traj_tracking_vel_no_except(w, target_pos, target_quat, pos_gain, vel_gain, converges) ==
    LET ee_pos_error == Vec3Sub(target_pos, w.ee_pos)
        ee_orn_error == OrnError(target_quat, w.ee_quat)
        err == Vec3Scale(pos_gain, ee_pos_error) \o Vec3Scale(vel_gain, ee_orn_error)
    IN  IF converges
        THEN [raised |-> "none", joint_dot |-> PinvDot(err)]
        ELSE [raised |-> "LinAlgError", joint_dot |-> Zero7]

\* converges: whether the SVD inside np.linalg.pinv converges on this call
traj_tracking_vel(w, target_pos, target_quat, pos_gain, vel_gain, converges) ==
    LET ee_pos_error == Vec3Sub(target_pos, w.ee_pos)
        ee_orn_error == OrnError(target_quat, w.ee_quat)
        err == Vec3Scale(pos_gain, ee_pos_error) \o Vec3Scale(vel_gain, ee_orn_error)
    IN  IF converges
        THEN [raised |-> "none", joint_dot |-> PinvDot(err)]
        ELSE [raised |-> "none", joint_dot |-> Zero7]

(***************************************************************************)
(* move                                                                    *)
(***************************************************************************)
MoveParams ==
    {"absolute_pos", "relative_pos", "absolute_global_euler",
     "relative_global_euler", "relative_local_euler", "absolute_global_quat",
     "relative_azi", "num_steps", "max_joint_vel", "pos_gain", "vel_gain"}

MoveDefaults ==
    [absolute_pos |-> None, relative_pos |-> None,
     absolute_global_euler |-> None, relative_global_euler |-> None,
     relative_local_euler |-> None, absolute_global_quat |-> None,
     relative_azi |-> None, num_steps |-> DefaultNumSteps, max_joint_vel |-> 20,
     pos_gain |-> DefaultPosGain, vel_gain |-> DefaultVelGain]

\* lines 264-270
MoveTargetPos(a, cur_pos) ==
    IF a.absolute_pos # None THEN a.absolute_pos
    ELSE IF a.relative_pos # None THEN Vec3Add(cur_pos, a.relative_pos)
    ELSE cur_pos

\* lines 272-290 with the two relative Euler forms composed on the wrong side
MoveTargetOrn_sides_swapped(a, cur_quat) ==
    IF a.absolute_global_euler # None THEN euler2quat(a.absolute_global_euler)
    ELSE IF a.relative_global_euler # None
         THEN quatMult(cur_quat, euler2quat(a.relative_global_euler))
    ELSE IF a.relative_local_euler # None
         THEN quatMult(euler2quat(a.relative_local_euler), cur_quat)
    ELSE IF a.absolute_global_quat # None THEN a.absolute_global_quat
    ELSE IF a.relative_azi # None
         THEN quatMult(quatMult(euler2quat(<<a.relative_azi[1], 0, 0>>), cur_quat),
                       euler2quat(<<0, a.relative_azi[2], 0>>))
    ELSE DownQuat

\* lines 272-290
MoveTargetOrn(a, cur_quat) ==
    IF a.absolute_global_euler # None THEN euler2quat(a.absolute_global_euler)
    ELSE IF a.relative_global_euler # None
         THEN quatMult(euler2quat(a.relative_global_euler), cur_quat)
    ELSE IF a.relative_local_euler # None
         THEN quatMult(cur_quat, euler2quat(a.relative_local_euler))
    ELSE IF a.absolute_global_quat # None THEN a.absolute_global_quat
    ELSE IF a.relative_azi # None
         THEN quatMult(quatMult(euler2quat(<<a.relative_azi[1], 0, 0>>), cur_quat),
                       euler2quat(<<0, a.relative_azi[2], 0>>))
    ELSE DownQuat

\* lines 299-337, one iteration: track waypoint k, command the seven arm
\* joints and the two finger joints, advance the simulation once
Commanded(w, r, a, failed, grip) ==
    LET arm == [i \in 1..NumJointArm |-> r.joint_dot[i]]
        fingers == <<w.finger, w.finger>>
        w1 == [w EXCEPT !.log.arm_cmds = Append(@, arm),
                        !.log.finger_cmds = Append(@, fingers),
                        !.log.failed = Append(@, failed)]
        w2 == stepSimulation(w1, arm, a.pos_gain, a.vel_gain, grip)
    IN  IF r.raised # "none" THEN [w EXCEPT !.raised = r.raised]
        ELSE [w2 EXCEPT !.log.sim_steps = @ + 1]

\* the loop body with a failed solve skipping the rest of the iteration
MoveIteration_skips_on_failure(w, traj, k, a, target_orn, conv, grip) ==
    IF conv[k]
    THEN Let(traj_tracking_vel(w, traj[k], target_orn, a.pos_gain, a.vel_gain, conv[k]),
             LAMBDA r : Commanded(w, r, a, ~conv[k], grip))
    ELSE w

MoveIteration(w, traj, k, a, target_orn, conv, grip) ==
    Let(traj_tracking_vel(w, traj[k], target_orn, a.pos_gain, a.vel_gain, conv[k]),
        LAMBDA r : Commanded(w, r, a, ~conv[k], grip))

RECURSIVE MoveLoop(_, _, _, _, _, _, _)
MoveLoop(w0, traj, k, a, target_orn, conv, grip) ==
    Let(w0, LAMBDA w :
        IF k > Len(traj) \/ w.raised # "none" THEN w
        ELSE MoveLoop(MoveIteration(w, traj, k, a, target_orn, conv, grip),
                      traj, k + 1, a, target_orn, conv, grip))

MoveBody(w, a, conv, grip, target_pos, target_orn, traj_pos) ==
    LET w0 == [w EXCEPT
                 !.trace = Append(@, Call("move", target_pos, target_orn, a.num_steps)),
                 !.log = [EmptyLog EXCEPT !.target_pos = target_pos,
                                          !.target_orn = target_orn,
                                          !.waypoints = Len(traj_pos),
                                          !.args = a,
                                          !.start_pos = w.ee_pos,
                                          !.start_quat = w.ee_quat,
                                          !.finger_before = w.finger]]
    IN  MoveLoop(w0, traj_pos, 1, a, target_orn, conv, grip)

move(w0, a, conv, grip) ==
    Let(w0, LAMBDA w :
      Let(MoveTargetPos(a, w.ee_pos), LAMBDA target_pos :
        Let(MoveTargetOrn(a, w.ee_quat), LAMBDA target_orn :
          Let(traj_time_scaling(w.ee_pos, target_pos, a.num_steps), LAMBDA traj_pos :
            MoveBody(w, a, conv, grip, target_pos, target_orn, traj_pos)))))

\* a: every parameter of move, None where not given.
\* Python's binding of a call self.move(**kw): a keyword that names no
\* parameter of move is a TypeError, raised before the body runs
CallMove(w, kw, conv, grip) ==
    IF DOMAIN kw \subseteq MoveParams
    THEN Let([p \in MoveParams |-> IF p \in DOMAIN kw THEN kw[p] ELSE MoveDefaults[p]],
             LAMBDA a : move(w, a, conv, grip))
    ELSE [w EXCEPT !.raised = "TypeError"]


(***************************************************************************)
(* clear_obj                                                               *)
(***************************************************************************)
\* list.remove(x): drops the first occurrence of x
RECURSIVE ListRemove(_, _)
ListRemove(l, x) ==
    IF l = <<>> THEN <<>>
    ELSE IF Head(l) = x THEN Tail(l)
    ELSE <<Head(l)>> \o ListRemove(Tail(l), x)

removeBody(bs, id) == [b \in (DOMAIN bs) \ {id} |-> bs[b]]

\* line 235 with >= in place of >
Lifted_at_threshold(w, id) == w.bodies[id].z - w.heights[id] >= LiftThreshold

\* lines 232-236: the ids whose height exceeds the recorded one by more than
\* the threshold, in list order
Lifted(w, id) == w.bodies[id].z - w.heights[id] > LiftThreshold

ObjToBeRemoved(w) == SelectSeq(w.list, LAMBDA id : Lifted(w, id))

\* lines 239-240 with the list.remove of line 240 left out
RemoveOne_keeps_id(w, id) == [w EXCEPT !.bodies = removeBody(@, id)]

\* lines 239-240
RemoveOne(w, id) ==
    [w EXCEPT !.bodies = removeBody(@, id), !.list = ListRemove(@, id)]

\* lines 238-240
RECURSIVE RemoveLoop(_, _)
RemoveLoop(w0, rem) ==
    Let(w0, LAMBDA w :
        IF rem = <<>> THEN w
        ELSE RemoveLoop(RemoveOne(w, Head(rem)), Tail(rem)))

ClearObjBody(w) ==
    LET w0 == [w EXCEPT !.trace = Append(@, Call("clear_obj", Zero3, NoQuat, 0))]
    IN  IF \E i \in 1..Len(w.list) : w.list[i] \notin DOMAIN w.bodies
        THEN [w0 EXCEPT !.raised = "error"]        \* getBasePositionAndOrientation
        ELSE IF \E i \in 1..Len(w.list) : w.list[i] \notin DOMAIN w.heights
        THEN [w0 EXCEPT !.raised = "KeyError"]     \* line 235
        ELSE Let(ObjToBeRemoved(w), LAMBDA rem : RemoveLoop(w0, rem))

clear_obj(w0) == Let(w0, LAMBDA w : ClearObjBody(w))

(***************************************************************************)
(* reset_task                                                              *)
(***************************************************************************)
GoodPath == "obj.urdf"
BadPath == "missing.urdf"

\* lines 122-141, one iteration on the i-th path and state; t is the caller's
\* descriptor, which line 123 changes in place
LoadIteration(st, i) ==
    LET w == st.w
        t == st.task
        s0 == t.obj_init_state_all[i]
        s1 == [s0 EXCEPT ![Len(s0) - 1] = @ + SpawnOffset]
        t1 == [t EXCEPT !.obj_init_state_all[i] = s1]
        id == NewId(DOMAIN w.bodies)
    IN  IF t.obj_path_list[i] # GoodPath
        THEN [w |-> [w EXCEPT !.raised = "error"], task |-> t1]   \* loadURDF
        ELSE [w |-> [w EXCEPT !.bodies = DictSet(@, id, [z |-> s1[3], mass |-> 1]),
                              !.list = Append(@, id)],
              task |-> t1]

RECURSIVE LoadLoop(_, _, _)
LoadLoop(st0, i, n) ==
    Let(st0, LAMBDA st :
        IF i > n \/ st.w.raised # "none" THEN st
        ELSE LoadLoop(LoadIteration(st, i), i + 1, n))

RECURSIVE RemoveBodies(_, _)
RemoveBodies(bs, l) ==
    IF l = <<>> THEN bs ELSE RemoveBodies(removeBody(bs, Head(l)), Tail(l))

RECURSIVE RecordHeights(_, _, _)
RecordHeights(h, bs, l) ==
    IF l = <<>> THEN h
    ELSE RecordHeights(DictSet(h, Head(l), bs[Head(l)].z), bs, Tail(l))

\* reset_task returns the world and the descriptor as the call leaves them
CleanAndAddBin(w) ==
    LET \* lines 99-105
        cleared == RemoveBodies(w.bodies, w.list)
        \* lines 107-117
        bin == NewId(DOMAIN cleared)
    IN  [w EXCEPT !.bodies = DictSet(cleared, bin, [z |-> BinZ, mass |-> 0]),
                  !.list = <<bin>>,
                  !.heights = EmptyDict]

LoadAll(w1, t) ==
    \* lines 122-141: zip stops at the shorter of the two lists
    LoadLoop([w |-> w1, task |-> t], 1,
             Min(Len(t.obj_path_list), Len(t.obj_init_state_all)))

SettleAndRecord(w1, t, st) ==
    LET \* lines 144-145
        settled == [b \in DOMAIN st.w.bodies |-> Settle(st.w.bodies[b])]
        \* lines 148-150
        w3 == [st.w EXCEPT !.bodies = settled,
                           !.heights = RecordHeights(EmptyDict, settled, st.w.list)]
    IN  IF t.kind = "None"
        THEN [w |-> [w1 EXCEPT !.raised = "TypeError"], task |-> t]   \* line 120
        ELSE IF t.kind = "no_states"
        THEN [w |-> [w1 EXCEPT !.raised = "KeyError"], task |-> t]    \* line 121
        ELSE IF st.w.raised # "none" THEN st
        ELSE [w |-> w3, task |-> st.task]

reset_task(w0, t) ==
    Let(CleanAndAddBin(w0), LAMBDA w1 :
        Let(LoadAll(w1, t), LAMBDA st : SettleAndRecord(w1, t, st)))


(***************************************************************************)
(* step                                                                    *)
(***************************************************************************)
PreImagePos == <<30, -50, 25>>      \* line 201: [0.3, -0.5, 0.25]
\* the action's third entry read as a length: pi (one half turn) is 3.14 m
YawAsLength(a) == 314 * a

NoRet == [returned |-> FALSE, reward |-> -1, done |-> FALSE]
ObsRet == [returned |-> TRUE, reward |-> -1, done |-> FALSE]
StepRet(reward) == [returned |-> TRUE, reward |-> reward, done |-> TRUE]

\* lines 211-213
RECURSIVE PlaceLoop(_, _, _, _)
PlaceLoop(w0, n, pos, orn) ==
    Let(w0, LAMBDA w :
        IF n = 0 THEN w
        ELSE PlaceLoop(stepSimulation(reset_arm_joints_ik(w, pos, orn), Zero7,
                                      DefaultPosGain, DefaultVelGain, 0),
                       n - 1, pos, orn))

\* lines 223-226
Reward(w) == IF Len(w.list) = 0 THEN 1 ELSE 0

\* the keyword each of the three calls of lines 214-219 passes its count as
StepCountKeyword == "numSteps"

MoveKw(pos, orn, n) ==
    [k \in {"absolute_pos", "absolute_global_quat", StepCountKeyword} |->
        CASE k = "absolute_pos" -> pos
          [] k = "absolute_global_quat" -> orn
          [] OTHER -> n]

TargetOf(action) == <<action[1], action[2], YawAsLength(action[3])>>
OrnOf(action) == quatMult(euler2quat(<<action[3], 0, 0>>), DownQuat)

\* lines 200-213: pre-image pose, open gripper, place above the target
StepApproach(w, action) ==
    LET w1 == reset_arm_joints_ik(w, PreImagePos, DownQuat)
        w2 == grasp(w1, OpenVel)
        ee_pos_before == Vec3Add(TargetOf(action), <<0, 0, BeforeOffset>>)
    IN  PlaceLoop(w2, PlaceRepeats, ee_pos_before, OrnOf(action))

\* lines 221-227
StepFinish(w8) ==
    IF w8.raised # "none" THEN [w |-> w8, ret |-> NoRet]
    ELSE [w |-> w8, ret |-> StepRet(Reward(w8))]

\* lines 218-222
StepLift(w6, action, conv, grip) ==
    LET ee_pos_after == Vec3Add(TargetOf(action), <<0, 0, AfterOffset>>)
    IN  Let(CallMove(w6, MoveKw(ee_pos_after, OrnOf(action), LiftSteps), conv, grip),
            LAMBDA w7 :
                IF w7.raised # "none" THEN [w |-> w7, ret |-> NoRet]
                ELSE Let(clear_obj(w7), StepFinish))

\* lines 215-217
StepCloseAndDwell(w4, action, conv, grip) ==
    Let(CallMove(grasp(w4, -OpenVel),
                 MoveKw(TargetOf(action), OrnOf(action), DwellSteps), conv, grip),
        LAMBDA w6 :
            IF w6.raised # "none" THEN [w |-> w6, ret |-> NoRet]
            ELSE StepLift(w6, action, conv, grip))

\* line 214
StepDescend(w3, action, conv, grip) ==
    Let(CallMove(w3, MoveKw(TargetOf(action), OrnOf(action), DescendSteps), conv, grip),
        LAMBDA w4 :
            IF w4.raised # "none" THEN [w |-> w4, ret |-> NoRet]
            ELSE StepCloseAndDwell(w4, action, conv, grip))

\* c: whether the pseudo-inverse converges during the call; grip: the body
\* between the fingers, 0 for none.  Returns the world and the return value.
step(w0, action, c, grip) ==
    Let([k \in 1..DescendSteps |-> c], LAMBDA conv :
        Let(StepApproach(w0, action), LAMBDA w3 :
            StepDescend(w3, action, conv, grip)))

(***************************************************************************)
(* Inputs                                                                  *)
(***************************************************************************)
TaskNone == [kind |-> "None", obj_path_list |-> <<>>, obj_init_state_all |-> <<>>]
TaskNoStates ==
    [kind |-> "no_states", obj_path_list |-> <<GoodPath>>, obj_init_state_all |-> <<>>]
\* n objects at [0.5, 0, 0] with yaw 0; the last path unloadable when bad
MkTask(n, bad) ==
    [kind |-> "dict",
     obj_path_list |-> [i \in 1..n |-> IF bad /\ i = n THEN BadPath ELSE GoodPath],
     obj_init_state_all |-> [i \in 1..n |-> <<50, 0, 0, 0>>]]

FreshTasks ==
    {TaskNone, TaskNoStates}
        \cup {MkTask(n, FALSE) : n \in 0..MaxObjs}
        \cup {MkTask(n, TRUE) : n \in 1..MaxObjs}

Reusable(t) ==
    \A i \in 1..Len(t.obj_init_state_all) : t.obj_init_state_all[i][3] < MaxTaskZ

Actions == {<<50, 0, 0>>, <<50, 0, 1>>}

HeightsSeq(l, h) ==
    [i \in 1..Len(l) |-> IF l[i] \in DOMAIN h THEN h[l[i]] ELSE -1]


Opt(v) == {None, v}

\* every combination of given and not-given target arguments
MoveArgsAll ==
    [absolute_pos : Opt(<<50, 0, 20>>), relative_pos : Opt(<<0, 0, 3>>),
     absolute_global_euler : Opt(<<1, 0, 0>>),
     relative_global_euler : Opt(<<1, 0, 0>>),
     relative_local_euler : Opt(<<1, 0, 0>>),
     absolute_global_quat : Opt(<<0, 0, 0, 1>>),
     relative_azi : Opt(<<1, 1>>),
     num_steps : {1}, max_joint_vel : {20},
     pos_gain : {DefaultPosGain}, vel_gain : {DefaultVelGain}]

\* the kind of call step makes: an absolute position and quaternion
MoveArgsStepLike ==
    [absolute_pos : {<<50, 0, 36>>},
     relative_pos : {None}, absolute_global_euler : {None},
     relative_global_euler : {None}, relative_local_euler : {None},
     absolute_global_quat : {<<0, 1, 0, 0>>},
     relative_azi : {None},
     num_steps : 1..MaxNumSteps, max_joint_vel : {20},
     pos_gain : {DefaultPosGain}, vel_gain : {DefaultVelGain}]

\* outcomes of the pseudo-inverse over n waypoints: it converges on all, on
\* all but one, or on none
ConvPatterns(n) ==
    {[k \in 1..n |-> k # f] : f \in 0..n} \cup {[k \in 1..n |-> FALSE]}

(***************************************************************************)
(* Initial state: a GraspEnv just constructed, reset not yet called        *)
(***************************************************************************)
Init ==
    /\ initialized = FALSE
    /\ obj_id_list = <<>>
    /\ obj_initial_height_list = EmptyDict
    /\ finger_cur_vel = 0
    /\ step_elapsed = 0
    /\ ee_pos = InitEePos
    /\ ee_quat = DownQuat
    /\ bodies = EmptyDict
    /\ task = TaskNone
    /\ lastCall = "init"
    /\ raised = "none"
    /\ ret = NoRet
    /\ trace = <<>>
    /\ log = EmptyLog
    /\ sameTask = FALSE
    /\ prevHeights = <<>>
    /\ stepCalls = 0
    /\ moveCalls = 0
    /\ resetOk = FALSE

Commit(w) ==
    /\ obj_id_list' = w.list
    /\ obj_initial_height_list' = w.heights
    /\ finger_cur_vel' = w.finger
    /\ ee_pos' = w.ee_pos
    /\ ee_quat' = w.ee_quat
    /\ bodies' = w.bodies
    /\ raised' = w.raised
    /\ trace' = w.trace
    /\ log' = w.log

(***************************************************************************)
(* Public operations                                                       *)
(***************************************************************************)
\* reset(task), lines 152-190; reuse: the caller passes the descriptor object
\* it passed to the reset before
Reset(t, reuse) ==
    /\ IF reuse THEN t = task /\ Reusable(t) ELSE t \in FreshTasks
    /\ \E r \in {reset_task(reset_robot(World), t)} :
       LET ok == r.w.raised = "none"
           again == reuse /\ lastCall = "reset" /\ raised = "none"
       IN  /\ initialized' = TRUE
           /\ Commit(r.w)
           /\ task' = r.task
           /\ step_elapsed' = IF ok THEN 0 ELSE step_elapsed
           /\ ret' = IF ok THEN ObsRet ELSE NoRet
           /\ stepCalls' = IF ok THEN 0 ELSE stepCalls
           /\ sameTask' = again
           /\ prevHeights' = IF again
                             THEN HeightsSeq(obj_id_list, obj_initial_height_list)
                             ELSE <<>>
           /\ moveCalls' = 0
           /\ resetOk' = ok
           /\ lastCall' = "reset"

\* step(action), lines 192-227
Step(action, c, grip) ==
    /\ initialized
    /\ stepCalls < MaxStepCalls
    /\ \E r \in {step(World, action, c, grip)} :
           /\ Commit(r.w)
           /\ ret' = r.ret
    /\ stepCalls' = stepCalls + 1
    /\ lastCall' = "step"
    /\ sameTask' = FALSE
    /\ prevHeights' = <<>>
    /\ UNCHANGED <<initialized, step_elapsed, task, moveCalls, resetOk>>

\* move(...), lines 242-339, called with the arguments a; the caller makes at
\* most cap such calls between two resets
Move(a, conv, grip, cap) ==
    /\ initialized
    /\ moveCalls < cap
    /\ \E w \in {move(World, a, conv, grip)} : Commit(w)
    /\ moveCalls' = moveCalls + 1
    /\ ret' = NoRet
    /\ lastCall' = "move"
    /\ sameTask' = FALSE
    /\ prevHeights' = <<>>
    /\ UNCHANGED <<initialized, step_elapsed, task, stepCalls, resetOk>>

\* grasp(targetVel): open or close the gripper
Grasp(targetVel) ==
    /\ initialized
    /\ \E w \in {grasp(World, targetVel)} : Commit(w)
    /\ ret' = NoRet
    /\ lastCall' = "grasp"
    /\ sameTask' = FALSE
    /\ prevHeights' = <<>>
    /\ UNCHANGED <<initialized, step_elapsed, task, stepCalls, moveCalls, resetOk>>

\* clear_obj(), lines 229-240
ClearObj ==
    /\ initialized
    /\ \E w \in {clear_obj(World)} : Commit(w)
    /\ ret' = NoRet
    /\ lastCall' = "clear_obj"
    /\ sameTask' = FALSE
    /\ prevHeights' = <<>>
    /\ UNCHANGED <<initialized, step_elapsed, task, stepCalls, moveCalls, resetOk>>

\* what may lie between the fingers: nothing, or a body that can move
Grips == {0} \cup {b \in DOMAIN bodies : bodies[b].mass > 0}

Next ==
    \/ \E t \in FreshTasks \cup {task}, reuse \in BOOLEAN : Reset(t, reuse)
    \/ \E action \in Actions, c \in BOOLEAN, grip \in Grips : Step(action, c, grip)
    \/ \E a \in MoveArgsStepLike, grip \in Grips :
           \E conv \in ConvPatterns(a.num_steps) : Move(a, conv, grip, MaxMoveCalls)
    \/ \E v \in {OpenVel, -OpenVel} : Grasp(v)
    \/ ClearObj

Spec == Init /\ [][Next]_vars

\* the same program driven through every form of move call, on an empty scene
NextMove ==
    \/ Reset(MkTask(0, FALSE), FALSE)
    \/ \E a \in MoveArgsAll :
           Move(a, [k \in 1..a.num_steps |-> TRUE], 0, MaxFormCalls)

SpecMove == Init /\ [][NextMove]_vars


(***************************************************************************)
(* Properties                                                              *)
(***************************************************************************)
OpsOf(tr) == [i \in 1..Len(tr) |-> tr[i].op]
Given(x) == x # None
\* the task objects still registered: the registered bodies other than the bin
TaskObjs == {id \in Range(obj_id_list) \cap DOMAIN bodies : bodies[id].mass > 0}
WellFormedReset == resetOk /\ task.kind = "dict"

\* C1: after a reset with a well-formed task, every step(action) call returns
\* without raising, with done True and a reward of 0 or 1.
C1_StepReturns ==
    (lastCall = "step" /\ WellFormedReset) =>
        /\ raised = "none"
        /\ ret.returned
        /\ ret.done
        /\ ret.reward \in {0, 1}

\* C2: the reward step returns is 1 exactly when no task object is left in
\* the registry after the grasp check, the bin not counted, and 0 otherwise.
C2_RewardIffNoTaskObject ==
    (lastCall = "step" /\ WellFormedReset) =>
        /\ ret.returned
        /\ ret.reward = (IF TaskObjs = {} THEN 1 ELSE 0)

\* C3: a second reset in succession with the same task descriptor object
\* records the same initial heights, entry for entry, as the first.
C3_ResetIdempotent ==
    (lastCall = "reset" /\ raised = "none" /\ sameTask) =>
        HeightsSeq(obj_id_list, obj_initial_height_list) = prevHeights

\* the ids clear_obj is to remove: those risen above their recorded height by
\* more than the threshold
RisenIds ==
    {id \in Range(obj_id_list) :
        bodies[id].z - obj_initial_height_list[id] > LiftThreshold}

ClearObjRan == lastCall' = "clear_obj" /\ raised' = "none"

SceneAndListCleared ==
    /\ obj_id_list' = SelectSeq(obj_id_list, LAMBDA id : id \notin RisenIds)
    /\ DOMAIN bodies' = (DOMAIN bodies) \ RisenIds
    /\ \A b \in DOMAIN bodies' : bodies'[b] = bodies[b]

FullChoreography ==
    <<"reset_arm_joints_ik", "grasp",
      "reset_arm_joints_ik", "reset_arm_joints_ik", "reset_arm_joints_ik",
      "move", "grasp", "move", "move", "clear_obj">>

\* C5: every step call runs the whole choreography in order: pre-image pose,
\* open, place above the target, descend, close, dwell, lift, grasp check.
C5_FullChoreography ==
    (lastCall = "step" /\ WellFormedReset) =>
        /\ OpsOf(trace) = FullChoreography
        /\ ret.returned

\* C6: move's target position is the absolute position if given, else the
\* current position plus the relative one if given, else the current position;
\* its target orientation comes from the first argument given among absolute
\* Euler, relative global Euler (delta on the left), relative local Euler
\* (delta on the right), absolute quaternion, relative azimuth (yaw on the
\* left, then pitch on the right), and is [1, 0, 0, 0] when none is given.
C6_MoveTargetResolution ==
    lastCall = "move" =>
        LET a == log.args
            tp == log.target_pos
            tq == log.target_orn
            cp == log.start_pos
            cq == log.start_quat
            noE1 == ~Given(a.absolute_global_euler)
            noE2 == noE1 /\ ~Given(a.relative_global_euler)
            noE3 == noE2 /\ ~Given(a.relative_local_euler)
            noQ == noE3 /\ ~Given(a.absolute_global_quat)
            noAz == noQ /\ ~Given(a.relative_azi)
        IN  /\ Given(a.absolute_pos) => tp = a.absolute_pos
            /\ (~Given(a.absolute_pos) /\ Given(a.relative_pos))
                   => tp = Vec3Add(cp, a.relative_pos)
            /\ (~Given(a.absolute_pos) /\ ~Given(a.relative_pos)) => tp = cp
            /\ Given(a.absolute_global_euler)
                   => tq = euler2quat(a.absolute_global_euler)
            /\ (noE1 /\ Given(a.relative_global_euler))
                   => tq = quatMult(euler2quat(a.relative_global_euler), cq)
            /\ (noE2 /\ Given(a.relative_local_euler))
                   => tq = quatMult(cq, euler2quat(a.relative_local_euler))
            /\ (noE3 /\ Given(a.absolute_global_quat))
                   => tq = a.absolute_global_quat
            /\ (noQ /\ Given(a.relative_azi))
                   => tq = quatMult(
                             quatMult(euler2quat(<<a.relative_azi[1], 0, 0>>), cq),
                             euler2quat(<<0, a.relative_azi[2], 0>>))
            /\ noAz => tq = <<1, 0, 0, 0>>

\* a move given a relative local Euler and lower-priority arguments but no
\* higher-priority one, from a pose where left and right composition differ
C6_Witness ==
    /\ lastCall = "move"
    /\ ~Given(log.args.absolute_global_euler)
    /\ ~Given(log.args.relative_global_euler)
    /\ Given(log.args.relative_local_euler)
    /\ Given(log.args.absolute_global_quat)
    /\ Given(log.args.relative_azi)
    /\ ~Given(log.args.absolute_pos) /\ Given(log.args.relative_pos)
    /\ log.start_quat # DownQuat
    /\ quatMult(log.start_quat, euler2quat(log.args.relative_local_euler))
           # quatMult(euler2quat(log.args.relative_local_euler), log.start_quat)

\* C7: a failing pseudo-inverse never makes move raise: at each waypoint where
\* the solve fails the seven arm joints are commanded zero velocity, and the
\* loop goes on to the remaining waypoints.
C7_PinvFailureContained ==
    lastCall = "move" =>
        /\ raised = "none"
        /\ Len(log.failed) = log.waypoints
        /\ Len(log.arm_cmds) = log.waypoints
        /\ \A k \in 1..Len(log.failed) : log.failed[k] => log.arm_cmds[k] = Zero7

\* a move whose solve failed at one waypoint and tracked the next
C7_Witness ==
    /\ lastCall = "move"
    /\ \E k \in 1..(Len(log.failed) - 1) :
           /\ log.failed[k]
           /\ ~log.failed[k + 1]
           /\ log.arm_cmds[k + 1] # Zero7

\* C8: move advances the simulation once per waypoint of its trajectory; before
\* each tick it commands every arm joint and both finger joints, the fingers at
\* the tracked gripper velocity, which move leaves as it found it.
C8_OneTickPerWaypoint ==
    lastCall = "move" =>
        /\ log.sim_steps = log.waypoints
        /\ Len(log.arm_cmds) = log.waypoints
        /\ Len(log.finger_cmds) = log.waypoints
        /\ \A k \in 1..Len(log.arm_cmds) : Len(log.arm_cmds[k]) = NumJointArm
        /\ \A k \in 1..Len(log.finger_cmds) :
               log.finger_cmds[k] = <<log.finger_before, log.finger_before>>
        /\ finger_cur_vel = log.finger_before

\* a move over several waypoints, one of them with a failed solve, made
\* while the gripper is closing
C8_Witness ==
    /\ lastCall = "move"
    /\ log.waypoints >= 2
    /\ log.finger_before = -OpenVel
    /\ \E k \in 1..Len(log.failed) : log.failed[k]

\* C9: step_elapsed equals the number of step calls made since the last reset.
C9_StepElapsedCounts == step_elapsed = stepCalls

RegistryConsistent ==
    /\ \A i \in 1..Len(obj_id_list) :
           /\ obj_id_list[i] \in DOMAIN bodies
           /\ obj_id_list[i] \in DOMAIN obj_initial_height_list
    /\ Cardinality(Range(obj_id_list)) = Len(obj_id_list)
    /\ lastCall = "clear_obj" => raised = "none"

====
